---- MODULE Spec2Model ----
(***************************************************************************)
(* demodata-sender: the telemetry generator (demodata_sender/generator.py) *)
(* and the Lambda entry point that sends one snapshot (lambda_function.py).*)
(*                                                                         *)
(* Units.  A value of rng.random() is an integer roll in 0..RollScale-1    *)
(* standing for roll/RollScale; weights are given in percent and compared  *)
(* through Pct.  Times of day are minutes since 00:00 JST (all regime      *)
(* boundaries fall on whole minutes).  Sleeps are tenths of a second.      *)
(* ng_rate is in units of 1/10000, the quality factor in tenths.           *)
(* Sensor readings are kept as the range <<lo, hi>> the value is drawn     *)
(* from (vibration in thousandths).                                        *)
(***************************************************************************)
EXTENDS Integers, Sequences, FiniteSets, TLC

VARIABLES
    pc,                \* position in lambda_handler / generate_payload
    current,           \* the timestamp, as minute of the day (JST)
    refill_active,     \* per machine id: is_material_refill_window(current, id)
    interval_sec,      \* intervalSec of the snapshot (0 before it is drawn)
    lines_payload,     \* line ids of the line groups appended so far
    machines_payload,  \* machine ids appended to the current line's group
    machine,           \* None, or Some(the record appended last)
    ng_rate,           \* None, or Some(ng_rate handed to generate_counts)
    attempt,           \* loop variable of _send_with_retry
    responses,         \* what each call of soratun.Send returned
    sleeps,            \* the time.sleep calls made, in order
    status_code,       \* statusCode returned by lambda_handler (0: none)
    regimes            \* result of the shift classifier (ClassifierSpec)

vars == <<pc, current, refill_active, interval_sec, lines_payload,
          machines_payload, machine, ng_rate, attempt, responses, sleeps,
          status_code, regimes>>

None == << >>
Some(x) == <<x>>

Max(a, b) == IF a >= b THEN a ELSE b
Min(a, b) == IF a <= b THEN a ELSE b

RECURSIVE FunctionOf(_)
\* the function with the graph `pairs`, a set of <<argument, value>>
FunctionOf(pairs) ==
    IF pairs = {}
    THEN << >>
    ELSE LET p == CHOOSE q \in pairs : TRUE
         IN  (p[1] :> p[2]) @@ FunctionOf(pairs \ {p})

(***************************************************************************)
(* Static configuration                                                    *)
(***************************************************************************)
LINE_IDS == <<"L1", "L2", "L3">>

LINE_CONFIGS ==
    [l \in {"L1", "L2", "L3"} |->
        CASE l = "L1" -> [line_id |-> "L1", cycle_time_range_ms |-> <<2500, 3500>>,
                          ng_rate |-> 30, temp_range_c |-> <<35, 45>>,
                          power_range_w |-> <<700, 1200>>,
                          vibration_range |-> <<50, 250>>]
          [] l = "L2" -> [line_id |-> "L2", cycle_time_range_ms |-> <<4500, 6500>>,
                          ng_rate |-> 80, temp_range_c |-> <<30, 40>>,
                          power_range_w |-> <<500, 900>>,
                          vibration_range |-> <<50, 250>>]
          [] l = "L3" -> [line_id |-> "L3", cycle_time_range_ms |-> <<6000, 9000>>,
                          ng_rate |-> 120, temp_range_c |-> <<28, 38>>,
                          power_range_w |-> <<300, 600>>,
                          vibration_range |-> <<50, 250>>]]

MACHINE_IDS == <<"M01", "M02", "M03", "M04", "M05", "M06">>

MATERIAL_REFILL_TARGETS == {"M02", "M03"}

ALARM_CODES == {"Q001", "Q002", "M001", "T001", "V001"}

ALARM_SEVERITY_WEIGHTS == << <<1, 60>>, <<2, 30>>, <<3, 10>> >>

INTERVAL_WEIGHTS ==
    << <<60, 70>>, <<30, 10>>, <<120, 10>>, <<10, 5>>, <<300, 4>>, <<600, 1>> >>

\* 1 / per_second_rate = 86400 / 0.2: with rolls counted in this unit the
\* alarm probability per_second_rate * interval_sec is interval_sec itself.
RollScale == 432000

Pct(p) == p * (RollScale \div 100)

(***************************************************************************)
(* Bounds of the model                                                     *)
(***************************************************************************)
\* normalvariate is sampled at expected + k * sigma for |k| <= MaxSigma
MaxSigma == 1
\* at most MaxNg of the sampled cycles are drawn as defects
MaxNg == 1

Time(h, m) == h * 60 + m

\* every minute of the day
AllTimes == 0 .. (Time(24, 0) - 1)

\* timestamps the generator is run on: both sides of every regime boundary,
\* the two scenario times of the tests, and every minute a refill window
\* can cover (15:30 .. 15:39)
TimeSamples ==
    {Time(0, 0), Time(2, 0), Time(8, 59), Time(9, 0), Time(9, 29), Time(9, 30),
     Time(11, 59), Time(12, 0), Time(12, 5), Time(12, 14), Time(12, 15),
     Time(12, 59), Time(13, 0), Time(15, 29), Time(15, 40), Time(17, 59),
     Time(18, 0), Time(23, 59)}
    \cup (Time(15, 30) .. Time(15, 39))

\* values rng.random() delivers: 0, the largest value, and both sides of every
\* cumulative weight and of every alarm probability
RollSamples ==
    ({0, RollScale - 1}
     \cup {Pct(p) + d : p \in {10, 60, 70, 80, 85, 90, 95, 98, 99}, d \in {0, 1}}
     \cup {INTERVAL_WEIGHTS[i][1] - d : i \in 1..Len(INTERVAL_WEIGHTS), d \in {0, 1}})

\* values rng.randint(30, 120) delivers for durationSec
DurationSamples == {30, 120}

\* values rng.uniform(1.5, 3.0) delivers, in tenths
FactorSamples == {15, 30}

(***************************************************************************)
(* Shift classifier                                                        *)
(***************************************************************************)
jst_time_in_range_nowrap(target, start, end) ==
    start <= target /\ target < end

jst_time_in_range(target, start, end) ==
    IF start <= end
    THEN start <= target /\ target < end
    ELSE target >= start \/ target < end

is_lunch_break(t) == jst_time_in_range(t, Time(12, 0), Time(12, 15))

is_off_shift(t) == jst_time_in_range(t, Time(18, 0), Time(9, 0))

is_startup(t) == jst_time_in_range(t, Time(9, 0), Time(9, 30))

is_normal_morning(t) == jst_time_in_range(t, Time(9, 30), Time(12, 0))

is_late_morning(t) == jst_time_in_range(t, Time(12, 15), Time(13, 0))

is_afternoon(t) == jst_time_in_range(t, Time(13, 0), Time(15, 30))

\* start_offset_min and duration_min are the two draws of the Random seeded
\* with sha256("{date}-{machine_id}-refill"): fixed for a date and a machine
is_material_refill_window(t, machine_id, start_offset_min, duration_min) ==
    IF machine_id \notin MATERIAL_REFILL_TARGETS
    THEN FALSE
    ELSE LET start_time == Time(15, 30) + start_offset_min
             end_time == start_time + duration_min
         IN  start_time <= t /\ t < end_time

(***************************************************************************)
(* Interval and status selector                                            *)
(***************************************************************************)
RECURSIVE cumulative(_, _)
\* the value of `cumulative` after the first i options, in percent
cumulative(options, i) ==
    IF i = 0 THEN 0 ELSE cumulative(options, i - 1) + options[i][2]

select_interval_sec(roll) ==
    LET within == {i \in 1..Len(INTERVAL_WEIGHTS) :
                      roll <= Pct(cumulative(INTERVAL_WEIGHTS, i))}
    IN  IF within = {}
        THEN INTERVAL_WEIGHTS[Len(INTERVAL_WEIGHTS)][1]
        ELSE INTERVAL_WEIGHTS[CHOOSE i \in within : \A j \in within : i <= j][1]

weighted_choice(roll, options) ==
    LET within == {i \in 1..Len(options) : roll <= Pct(cumulative(options, i))}
    IN  IF within = {}
        THEN options[Len(options)][1]
        ELSE options[CHOOSE i \in within : \A j \in within : i <= j][1]

weighted_status(roll, options) ==
    LET status == weighted_choice(roll, options)
        reason == CASE status = "RUN" -> "normal_run"
                    [] status = "IDLE" -> "end_of_shift"
                    [] status = "STOP" -> "material_wait"
                    [] status = "CHANGEOVER" -> "changeover"
                    [] status = "MAINT" -> "planned_maintenance"
    IN  <<status, reason>>

StatusTable(run, idle, stop, changeover, maint) ==
    << <<"RUN", run>>, <<"IDLE", idle>>, <<"STOP", stop>>,
       <<"CHANGEOVER", changeover>>, <<"MAINT", maint>> >>

\* select_status with the off-shift branch falling through to the tables
select_status_no_off_shift(roll, t, in_refill_window) ==
    IF is_lunch_break(t) THEN <<"IDLE", "lunch_break">>
    ELSE IF in_refill_window THEN <<"STOP", "material_refill">>
    ELSE weighted_status(roll, StatusTable(80, 10, 5, 3, 2))

\* select_status with the lunch-break test after the off-shift test dropped
select_status_no_lunch(roll, t, in_refill_window) ==
    IF is_off_shift(t)
    THEN IF roll < Pct(10) THEN <<"RUN", "normal_run">> ELSE <<"IDLE", "off_shift">>
    ELSE IF in_refill_window THEN <<"STOP", "material_refill">>
    ELSE IF is_startup(t) THEN weighted_status(roll, StatusTable(60, 20, 10, 5, 5))
    ELSE IF is_normal_morning(t) \/ is_afternoon(t)
         THEN weighted_status(roll, StatusTable(85, 5, 5, 3, 2))
    ELSE IF is_late_morning(t) THEN weighted_status(roll, StatusTable(70, 20, 5, 3, 2))
    ELSE weighted_status(roll, StatusTable(80, 10, 5, 3, 2))

\* select_status with the refill test dropped
select_status_no_refill(roll, t, in_refill_window) ==
    IF is_lunch_break(t) THEN <<"IDLE", "lunch_break">>
    ELSE IF is_off_shift(t)
    THEN IF roll < Pct(10) THEN <<"RUN", "normal_run">> ELSE <<"IDLE", "off_shift">>
    ELSE IF is_startup(t) THEN weighted_status(roll, StatusTable(60, 20, 10, 5, 5))
    ELSE IF is_normal_morning(t) \/ is_afternoon(t)
         THEN weighted_status(roll, StatusTable(85, 5, 5, 3, 2))
    ELSE IF is_late_morning(t) THEN weighted_status(roll, StatusTable(70, 20, 5, 3, 2))
    ELSE weighted_status(roll, StatusTable(80, 10, 5, 3, 2))

\* roll is consumed in the off-shift branch and by weighted_status only;
\* in_refill_window is is_material_refill_window(current, machine_id)
select_status(roll, t, in_refill_window) ==
    IF is_lunch_break(t) THEN <<"IDLE", "lunch_break">>
    ELSE IF is_off_shift(t)
    THEN IF roll < Pct(10) THEN <<"RUN", "normal_run">> ELSE <<"IDLE", "off_shift">>
    ELSE IF in_refill_window THEN <<"STOP", "material_refill">>
    ELSE IF is_startup(t) THEN weighted_status(roll, StatusTable(60, 20, 10, 5, 5))
    ELSE IF is_normal_morning(t) \/ is_afternoon(t)
         THEN weighted_status(roll, StatusTable(85, 5, 5, 3, 2))
    ELSE IF is_late_morning(t) THEN weighted_status(roll, StatusTable(70, 20, 5, 3, 2))
    ELSE weighted_status(roll, StatusTable(80, 10, 5, 3, 2))

(***************************************************************************)
(* Alarm and production model                                              *)
(***************************************************************************)
\* roll: the rng.random() compared with the probability; alarm_code: what
\* rng.choice returns; severity_roll: the roll of weighted_choice;
\* duration_sec: what rng.randint(30, 120) returns
choose_alarm(roll, alarm_code, severity_roll, duration_sec, interval) ==
    IF roll >= interval
    THEN None
    ELSE Some([alarmCode |-> alarm_code,
               severity |-> weighted_choice(severity_roll, ALARM_SEVERITY_WEIGHTS),
               durationSec |-> duration_sec])

\* every result of choose_alarm, per interval length
AlarmOutcomes ==
    FunctionOf({<<i, {choose_alarm(roll, code, sev, dur, i) :
                        roll \in RollSamples, code \in ALARM_CODES,
                        sev \in RollSamples, dur \in DurationSamples}>> :
                  i \in {INTERVAL_WEIGHTS[k][1] : k \in 1..Len(INTERVAL_WEIGHTS)}})

\* reason_map with the codes M001 and T001 exchanged
reason_map_swapped(alarm_code) ==
    CASE alarm_code \in {"Q001", "Q002"} -> "quality_issue"
      [] alarm_code = "M001" -> "over_temp"
      [] alarm_code = "T001" -> "machine_fault"
      [] alarm_code = "V001" -> "high_vibration"

reason_map(alarm_code) ==
    CASE alarm_code \in {"Q001", "Q002"} -> "quality_issue"
      [] alarm_code = "M001" -> "machine_fault"
      [] alarm_code = "T001" -> "over_temp"
      [] alarm_code = "V001" -> "high_vibration"

\* the status and reason after the alarm draw
alarm_override(selected, alarm) ==
    IF alarm # None
    THEN <<"ALARM", reason_map(alarm[1].alarmCode)>>
    ELSE selected

\* time accounting that leaves an ALARM interval out of every bucket
time_deltas_alarm_untracked(status, interval) ==
    IF status = "RUN" THEN [run_time |-> interval, idle_time |-> 0, stop_time |-> 0]
    ELSE IF status = "IDLE" THEN [run_time |-> 0, idle_time |-> interval, stop_time |-> 0]
    ELSE IF status = "ALARM" THEN [run_time |-> 0, idle_time |-> 0, stop_time |-> 0]
    ELSE [run_time |-> 0, idle_time |-> 0, stop_time |-> interval]

\* time accounting with the idle and stop buckets exchanged
time_deltas_swapped(status, interval) ==
    IF status = "RUN" THEN [run_time |-> interval, idle_time |-> 0, stop_time |-> 0]
    ELSE IF status = "IDLE" THEN [run_time |-> 0, idle_time |-> 0, stop_time |-> interval]
    ELSE [run_time |-> 0, idle_time |-> interval, stop_time |-> 0]

time_deltas(status, interval) ==
    IF status = "RUN" THEN [run_time |-> interval, idle_time |-> 0, stop_time |-> 0]
    ELSE IF status = "IDLE" THEN [run_time |-> 0, idle_time |-> interval, stop_time |-> 0]
    ELSE [run_time |-> 0, idle_time |-> 0, stop_time |-> interval]

\* the bounds rng.randint is called with
cycle_time_range(line, t) ==
    LET min_ms == line.cycle_time_range_ms[1]
        max_ms == line.cycle_time_range_ms[2]
        range_padding == ((max_ms - min_ms) * 3) \div 10
    IN  IF is_startup(t)
        THEN <<Max(500, min_ms - range_padding), max_ms + range_padding>>
        ELSE <<min_ms, max_ms>>

\* values rng.randint(min_ms, max_ms) delivers
compute_cycle_time_ms(line, t) ==
    {cycle_time_range(line, t)[1], cycle_time_range(line, t)[2]}

\* values rng.normalvariate(expected, expected * 0.05) delivers, truncated;
\* -1 stands for the far lower tail
NormalSamples(expected_cycles) ==
    {expected_cycles + k * ((expected_cycles * 5) \div 100) : k \in -MaxSigma..MaxSigma}
    \cup {-1}

\* normal_draw: the truncated normalvariate draw; failed: how many of the
\* sample_cycles draws fell below ng_rate
generate_counts(normal_draw, failed) ==
    LET sample_cycles == Max(0, normal_draw)
        ng_count == failed
        good_count == Max(sample_cycles - ng_count, 0)
    IN  <<good_count, ng_count>>

\* the ng_rate handed to generate_counts; factor is the rng.uniform(1.5, 3.0)
\* draw, made only when a quality alarm is active
effective_ng_rate(line, t, alarm, factor) ==
    LET base == line.ng_rate
        startup == IF is_startup(t) THEN base * 2 ELSE base
    IN  IF alarm # None /\ alarm[1].alarmCode \in {"Q001", "Q002"}
        THEN (startup * factor) \div 10
        ELSE startup

\* the locals of the block guarded by status = "RUN" after it ran with the
\* given draws
run_block(cycle_time_ms, normal_draw, failed, factor, line, t, alarm) ==
    [cycle_time_ms |-> Some(cycle_time_ms),
     counts |-> generate_counts(normal_draw, failed),
     ng_rate |-> Some(effective_ng_rate(line, t, alarm, factor))]

\* cycle time, counters and ng_rate of one machine: every result of the
\* block guarded by status = "RUN", or the initial values when it is skipped
production(status, alarm, line, t, interval) ==
    IF status = "RUN"
    THEN UNION {UNION {{run_block(c, z, f, q, line, t, alarm) :
                           f \in 0..Min(MaxNg, Max(0, z)), q \in FactorSamples} :
                       z \in NormalSamples((interval * 1000) \div c)} :
                c \in compute_cycle_time_ms(line, t)}
    ELSE {[cycle_time_ms |-> None, counts |-> <<0, 0>>, ng_rate |-> None]}

(***************************************************************************)
(* Sensor synthesizer                                                      *)
(***************************************************************************)
\* each reading as the range its value is drawn from
generate_sensors(line, status, alarm) ==
    LET temp_min == line.temp_range_c[1]
        temp_max == line.temp_range_c[2]
        power_min == line.power_range_w[1]
        power_max == line.power_range_w[2]
        alarm_code == IF alarm # None THEN alarm[1].alarmCode ELSE ""
        temperature == IF status = "RUN" THEN <<temp_min, temp_max>>
                       ELSE <<25, temp_min>>
        power == IF status = "RUN" THEN <<power_min, power_max>>
                 ELSE <<(power_min * 2) \div 10, (power_max * 4) \div 10>>
        vibration == IF status = "RUN" THEN line.vibration_range ELSE <<0, 30>>
    IN  [temperatureC |-> IF alarm_code = "T001"
                          THEN <<temp_max + 5, temp_max + 10>> ELSE temperature,
         powerW |-> IF alarm_code = "M001"
                    THEN <<(power_max * 13) \div 10, (power_max * 18) \div 10>>
                    ELSE power,
         vibration |-> IF alarm_code = "V001" THEN <<300, 600>> ELSE vibration]

(***************************************************************************)
(* Record assembly                                                         *)
(***************************************************************************)
\* the payload dictionary; alarm is None when the key is absent
generate_machine_payload(selected, alarm, prod, t, interval, line, machine_id) ==
    LET final == alarm_override(selected, alarm)
        status == final[1]
        deltas == time_deltas(status, interval)
    IN  [machineId |-> <<line.line_id, machine_id>>,
         status |-> status,
         reason |-> final[2],
         goodCountDelta |-> prod.counts[1],
         ngCountDelta |-> prod.counts[2],
         runTimeSecDelta |-> deltas.run_time,
         idleTimeSecDelta |-> deltas.idle_time,
         stopTimeSecDelta |-> deltas.stop_time,
         cycleTimeMs |-> prod.cycle_time_ms,
         sensors |-> generate_sensors(line, status, alarm),
         alarm |-> IF alarm # None
                   THEN Some([alarmCode |-> alarm[1].alarmCode,
                              severity |-> alarm[1].severity])
                   ELSE None]

\* every <<record, ng_rate>> one call of generate_machine_payload can
\* produce, over all the draws it makes
machine_outcomes(t, interval, line, machine_id, in_refill_window) ==
    UNION {UNION {{<<generate_machine_payload(selected, alarm, prod, t, interval,
                                              line, machine_id),
                     prod.ng_rate>> :
                      prod \in production(alarm_override(selected, alarm)[1],
                                          alarm, line, t, interval)} :
                  alarm \in (IF selected[1] # "IDLE"
                             THEN AlarmOutcomes[interval] ELSE {None})} :
           selected \in {select_status(roll, t, in_refill_window) :
                            roll \in RollSamples}}

MachineIdSet == {MACHINE_IDS[i] : i \in 1..Len(MACHINE_IDS)}

IntervalSet == {INTERVAL_WEIGHTS[k][1] : k \in 1..Len(INTERVAL_WEIGHTS)}

\* machine_outcomes, tabulated over the arguments the model calls it with
MachineOutcomes ==
    FunctionOf({<<t, FunctionOf({<<i, FunctionOf({<<l, FunctionOf({<<m,
        FunctionOf({<<w, machine_outcomes(t, i, LINE_CONFIGS[l], m, w)>> :
                      w \in BOOLEAN})>> :
                      m \in MachineIdSet})>> :
                      l \in DOMAIN LINE_CONFIGS})>> :
                      i \in IntervalSet})>> :
                      t \in TimeSamples})

(***************************************************************************)
(* The sender                                                              *)
(***************************************************************************)
max_attempts == 3

backoffs == <<5, 10, 20>>

\* the sleep after a null response with a sleep after the last attempt too
sleep_after_failure_always(n) == <<backoffs[n] + n>>

\* the time.sleep calls made after a null response on attempt n
sleep_after_failure(n) ==
    IF n < max_attempts THEN <<backoffs[n] + n>> ELSE << >>

(***************************************************************************)
(* State machine: one invocation of lambda_handler                         *)
(***************************************************************************)
\* the timestamp is fixed for the invocation, and so is the result of
\* is_material_refill_window for each machine id: the seeded draws
\* (start offset 0..2, duration 3..7) are made here and the window test kept
Init ==
    /\ pc = "generate"
    /\ current \in TimeSamples
    /\ \E start_offset_min \in [MATERIAL_REFILL_TARGETS -> 0..2],
          duration_min \in [MATERIAL_REFILL_TARGETS -> 3..7] :
          refill_active =
              [m \in MachineIdSet |->
                  IF m \in MATERIAL_REFILL_TARGETS
                  THEN is_material_refill_window(current, m, start_offset_min[m],
                                                 duration_min[m])
                  ELSE is_material_refill_window(current, m, 0, 3)]
    /\ interval_sec = 0
    /\ lines_payload = << >>
    /\ machines_payload = << >>
    /\ machine = None
    /\ ng_rate = None
    /\ attempt = 1
    /\ responses = << >>
    /\ sleeps = << >>
    /\ status_code = 0
    /\ regimes = {}

\* generate_payload up to the interval draw
SelectInterval ==
    /\ pc = "generate"
    /\ \E roll \in RollSamples : interval_sec' = select_interval_sec(roll)
    /\ pc' = "machines"
    /\ UNCHANGED <<current, refill_active, lines_payload, machines_payload,
                   machine, ng_rate, attempt, responses, sleeps, status_code,
                   regimes>>

\* one call of generate_machine_payload and the append of its record; the
\* line group is appended after its sixth machine, and generate_payload
\* returns after the third group
GenerateMachine ==
    /\ pc = "machines"
    /\ LET line_id == LINE_IDS[Len(lines_payload) + 1]
           machine_id == MACHINE_IDS[Len(machines_payload) + 1]
           line_done == Len(machines_payload) + 1 = Len(MACHINE_IDS)
       IN  /\ \E out \in MachineOutcomes[current][interval_sec][line_id][machine_id]
                                     [refill_active[machine_id]] :
                 /\ machine' = Some(out[1])
                 /\ ng_rate' = out[2]
           /\ machines_payload' = IF line_done THEN << >>
                                  ELSE Append(machines_payload, machine_id)
           /\ lines_payload' = IF line_done
                               THEN Append(lines_payload, line_id)
                               ELSE lines_payload
           /\ pc' = IF line_done /\ Len(lines_payload) + 1 = Len(LINE_IDS)
                    THEN "send" ELSE "machines"
    /\ UNCHANGED <<current, refill_active, interval_sec, attempt, responses,
                   sleeps, status_code, regimes>>

\* one iteration of the loop of _send_with_retry; the raise after the loop
\* is taken with the last iteration
SendAttempt ==
    /\ pc = "send"
    /\ attempt <= max_attempts
    /\ \E response_ptr \in {None, Some("ok")} :
          /\ responses' = Append(responses, response_ptr)
          /\ IF response_ptr # None
             THEN /\ pc' = "returned"
                  /\ UNCHANGED <<attempt, sleeps>>
             ELSE /\ sleeps' = sleeps \o sleep_after_failure(attempt)
                  /\ attempt' = attempt + 1
                  /\ pc' = IF attempt + 1 <= max_attempts THEN "send" ELSE "raised"
    /\ UNCHANGED <<current, refill_active, interval_sec, lines_payload,
                   machines_payload, machine, ng_rate, status_code, regimes>>

\* lambda_handler after _send_with_retry returned
ReturnOk ==
    /\ pc = "returned"
    /\ status_code' = 200
    /\ pc' = "done"
    /\ UNCHANGED <<current, refill_active, interval_sec, lines_payload,
                   machines_payload, machine, ng_rate, attempt, responses,
                   sleeps, regimes>>

Next == SelectInterval \/ GenerateMachine \/ SendAttempt \/ ReturnOk

Spec == Init /\ [][Next]_vars

\* the interpreter runs the loop of _send_with_retry and the rest of
\* lambda_handler to the end: a call of Send and a sleep both return
FairSpec == Spec /\ WF_vars(SendAttempt \/ ReturnOk)

(***************************************************************************)
(* The shift classifier alone, on every minute of the day                  *)
(***************************************************************************)
RegimeNames ==
    {"lunch_break", "off_shift", "startup", "normal_morning", "late_morning",
     "afternoon"}

in_regime(name, t) ==
    CASE name = "lunch_break" -> is_lunch_break(t)
      [] name = "off_shift" -> is_off_shift(t)
      [] name = "startup" -> is_startup(t)
      [] name = "normal_morning" -> is_normal_morning(t)
      [] name = "late_morning" -> is_late_morning(t)
      [] name = "afternoon" -> is_afternoon(t)

ClassifierInit ==
    /\ pc = "classify"
    /\ current \in AllTimes
    /\ refill_active = [m \in MachineIdSet |-> FALSE]
    /\ interval_sec = 0
    /\ lines_payload = << >>
    /\ machines_payload = << >>
    /\ machine = None
    /\ ng_rate = None
    /\ attempt = 1
    /\ responses = << >>
    /\ sleeps = << >>
    /\ status_code = 0
    /\ regimes = {}

\* the six regime predicates applied to the timestamp
Classify ==
    /\ pc = "classify"
    /\ regimes' = {name \in RegimeNames : in_regime(name, current)}
    /\ pc' = "classified"
    /\ UNCHANGED <<current, refill_active, interval_sec, lines_payload,
                   machines_payload, machine, ng_rate, attempt, responses,
                   sleeps, status_code>>

ClassifierNext == Classify

ClassifierSpec == ClassifierInit /\ [][ClassifierNext]_vars

(***************************************************************************)
(* Properties                                                              *)
(***************************************************************************)
HasRecord == machine # None

Rec == machine[1]

DeltaSum == Rec.runTimeSecDelta + Rec.idleTimeSecDelta + Rec.stopTimeSecDelta

QualityCodes == {"Q001", "Q002"}

\* C2: a record whose final status is RUN, IDLE or STOP carries the whole
\* interval in exactly one bucket (run for RUN, idle for IDLE, stop for
\* STOP), the other two deltas are 0, and the three sum to intervalSec.
C2_TimeAccounting ==
    (HasRecord /\ Rec.status \in {"RUN", "IDLE", "STOP"}) =>
        /\ DeltaSum = interval_sec
        /\ Rec.runTimeSecDelta = (IF Rec.status = "RUN" THEN interval_sec ELSE 0)
        /\ Rec.idleTimeSecDelta = (IF Rec.status = "IDLE" THEN interval_sec ELSE 0)
        /\ Rec.stopTimeSecDelta = (IF Rec.status = "STOP" THEN interval_sec ELSE 0)

C2_Witness ==
    /\ HasRecord
    /\ Rec.status = "STOP"
    /\ Rec.reason = "material_wait"
    /\ interval_sec = 600
    /\ Rec.stopTimeSecDelta = 600

\* C3 as stated: a record whose final status is ALARM has all three time
\* deltas equal to 0.
C3_AlarmInNoBucket ==
    (HasRecord /\ Rec.status = "ALARM") =>
        /\ Rec.runTimeSecDelta = 0
        /\ Rec.idleTimeSecDelta = 0
        /\ Rec.stopTimeSecDelta = 0

\* C3 amended: a record whose final status is ALARM has runTimeSecDelta = 0,
\* idleTimeSecDelta = 0 and stopTimeSecDelta = intervalSec (ALARM takes the
\* final else branch of the time accounting).
C3_AlarmInStopBucket ==
    (HasRecord /\ Rec.status = "ALARM") =>
        /\ Rec.runTimeSecDelta = 0
        /\ Rec.idleTimeSecDelta = 0
        /\ Rec.stopTimeSecDelta = interval_sec
        /\ interval_sec > 0

C3_Witness ==
    /\ HasRecord
    /\ Rec.status = "ALARM"
    /\ Rec.alarm # None
    /\ interval_sec = 60
    /\ Rec.stopTimeSecDelta = 60

C5_LunchBreakAllIdle ==
    (HasRecord /\ Time(12, 0) <= current /\ current < Time(12, 15)) =>
        /\ Rec.status = "IDLE"
        /\ Rec.reason = "lunch_break"
        /\ Rec.runTimeSecDelta = 0
        /\ Rec.stopTimeSecDelta = 0
        /\ Rec.idleTimeSecDelta = interval_sec
        /\ Rec.cycleTimeMs = None
        /\ Rec.alarm = None

C5_Witness ==
    /\ HasRecord
    /\ current = Time(12, 5)
    /\ pc = "send"
    /\ Len(lines_payload) = 3
    /\ Rec.machineId = <<"L3", "M06">>
    /\ Rec.status = "IDLE"
    /\ Rec.idleTimeSecDelta = interval_sec

C6_ReasonOf(code) ==
    CASE code \in {"Q001", "Q002"} -> "quality_issue"
      [] code = "M001" -> "machine_fault"
      [] code = "T001" -> "over_temp"
      [] code = "V001" -> "high_vibration"

\* C6: a record with an alarm field has status ALARM and the reason the
\* fixed map gives for alarm.alarmCode (Q001, Q002 -> quality_issue,
\* M001 -> machine_fault, T001 -> over_temp, V001 -> high_vibration).
C6_AlarmConsistency ==
    (HasRecord /\ Rec.alarm # None) =>
        /\ Rec.status = "ALARM"
        /\ Rec.alarm[1].alarmCode \in ALARM_CODES
        /\ Rec.reason = C6_ReasonOf(Rec.alarm[1].alarmCode)

C6_Witness ==
    /\ HasRecord
    /\ Rec.alarm # None
    /\ Rec.alarm[1].alarmCode = "T001"
    /\ Rec.status = "ALARM"
    /\ Rec.reason = "over_temp"

\* C7 as stated: for every minute of the day exactly one of the six regime
\* predicates is true.
C7_ExactlyOneRegime ==
    pc = "classified" => Cardinality(regimes) = 1

\* C7 amended: for every minute of the day at most one of the six regime
\* predicates is true, and none is true exactly when 15:30 <= t < 18:00.
C7_AtMostOneRegime ==
    pc = "classified" =>
        /\ Cardinality(regimes) <= 1
        /\ regimes = {} <=> (Time(15, 30) <= current /\ current < Time(18, 0))

C7_Witness ==
    /\ pc = "classified"
    /\ current = Time(15, 30)
    /\ regimes = {}

\* C8 as stated: while the refill window is active for a machine its record
\* has status STOP and reason material_refill, and no machine other than
\* M02 and M03 gets reason material_refill.
C8_RefillForcesStop ==
    HasRecord =>
        /\ refill_active[Rec.machineId[2]] =>
              (Rec.status = "STOP" /\ Rec.reason = "material_refill")
        /\ Rec.reason = "material_refill" =>
              Rec.machineId[2] \in MATERIAL_REFILL_TARGETS

\* C8 amended: while the refill window is active for a machine its record
\* has status STOP and reason material_refill unless an alarm fired for it
\* in the interval, in which case it has status ALARM and the alarm's
\* reason; reason material_refill occurs only for M02 and M03 and only
\* while their window is active.
C8_RefillForcesStopUnlessAlarm ==
    HasRecord =>
        /\ (refill_active[Rec.machineId[2]] /\ Rec.alarm = None) =>
              (Rec.status = "STOP" /\ Rec.reason = "material_refill")
        /\ (refill_active[Rec.machineId[2]] /\ Rec.alarm # None) =>
              /\ Rec.status = "ALARM"
              /\ Rec.reason = C6_ReasonOf(Rec.alarm[1].alarmCode)
        /\ Rec.reason = "material_refill" =>
              /\ Rec.machineId[2] \in MATERIAL_REFILL_TARGETS
              /\ refill_active[Rec.machineId[2]]

C8_Witness ==
    /\ HasRecord
    /\ Rec.machineId = <<"L2", "M03">>
    /\ refill_active["M03"]
    /\ ~refill_active["M02"]
    /\ Rec.status = "STOP"
    /\ Rec.reason = "material_refill"
    /\ Rec.stopTimeSecDelta = interval_sec

\* C9: a record whose alarm is a quality alarm (Q001 or Q002) has its
\* production counters computed (cycleTimeMs set, generate_counts called)
\* with the ng_rate multiplied by the drawn factor.
C9_QualityAlarmMultiplies ==
    (HasRecord /\ Rec.alarm # None /\ Rec.alarm[1].alarmCode \in QualityCodes) =>
        /\ Rec.cycleTimeMs # None
        /\ ng_rate # None
        /\ ng_rate[1] > LINE_CONFIGS[Rec.machineId[1]].ng_rate

AllNull(rs) == \A i \in 1..Len(rs) : rs[i] = None

\* the state of the sender: at most 3 calls, all responses before the last
\* null, the sleeps made so far, who raised and who returned 200
C10_SendInvariant ==
    /\ Len(responses) <= max_attempts
    /\ pc = "send" =>
          /\ AllNull(responses)
          /\ Len(responses) = attempt - 1
          /\ attempt <= max_attempts
    /\ pc \in {"returned", "done"} =>
          /\ Len(responses) >= 1
          /\ responses[Len(responses)] # None
          /\ AllNull(SubSeq(responses, 1, Len(responses) - 1))
    /\ pc = "raised" <=> (Len(responses) = max_attempts /\ AllNull(responses))
    /\ pc \in {"send", "returned", "done", "raised"} =>
          sleeps = SubSeq(<<6, 12>>, 1,
                          IF pc = "raised" THEN 2
                          ELSE IF pc = "send" THEN Len(responses)
                          ELSE Len(responses) - 1)
    /\ status_code = 200 <=> pc = "done"
    /\ pc \in {"send", "returned"} => ENABLED (SendAttempt \/ ReturnOk)

\* C10: _send_with_retry makes at most 3 calls of Send and stops at the
\* first non-null response; it sleeps 0.6 s after a null response on
\* attempt 1 and 1.2 s after one on attempt 2 and never after the last
\* attempt; it raises exactly when all 3 responses were null; statusCode 200
\* is returned only after a non-null response; and once the sender is
\* entered, lambda_handler eventually returns 200 or raises.
C10_BoundedRetryTerminates ==
    /\ []C10_SendInvariant
    /\ (pc = "send") ~> (pc \in {"done", "raised"})

C10_Witness ==
    /\ pc = "done"
    /\ status_code = 200
    /\ responses = <<None, None, Some("ok")>>
    /\ sleeps = <<6, 12>>

====
